---- MODULE Spec2Model ----
(***************************************************************************)
(* Model of object_recognition_node/src/perception_interface.cpp           *)
(* (class PerceptionInterface): the capture latch, the observation buffer, *)
(* the per-pixel temporal integration and the recognition round trip.      *)
(*                                                                         *)
(* Spec          : the callbacks of the node, serialised by ros::spinOnce. *)
(* SpecLive      : the same callbacks when lookups succeed and frames keep *)
(*                 arriving.                                               *)
(* SpecIntegrate : IntegrateOrganizedClouds applied to bounded inputs.     *)
(* SpecFilter    : the workspace filter of CloudCBInternal applied to      *)
(*                 bounded clouds, limits and segmentation results.        *)
(* SpecPose      : the pose matrix CloudCBInternal builds from a response  *)
(*                 payload.                                                *)
(***************************************************************************)
EXTENDS Integers, Sequences, FiniteSets, TLC

VARIABLES
  capture_kinect_,                \* bool member: the capture latch
  recent_observations_,           \* std::vector<PointCloud>
  latest_requested_objects_,      \* std::vector<string>
  cmd_rec_time_,                  \* ros::Time of the last direct request
  wait_for_recent_,               \* parameter wait_for_recent_cloud
  num_observations_to_integrate_, \* integration count
  pcl_visualization_,             \* parameter pcl_visualization
  recent_cloud_,                  \* copy of the cloud given to CloudCBInternal
  integrated_cloud,               \* local of CloudCB / result of the integrator
  latest_object_poses_,           \* std::vector<geometry_msgs::Pose>
  latest_call_success_,           \* bool member
  perch_result_,                  \* perch_result_.object_poses
  goal_status,                    \* status of perch_server_'s current goal
  goal_object_ids,                \* object_ids of perch_server_'s current goal
  xmin_, xmax_, ymin_, ymax_,     \* parameters: workspace limits on x and y
  table_height_,                  \* parameter table_height
  table_removed_cloud,            \* local of CloudCBInternal: the filtered cloud
  model_inliers,                  \* local of CloudCBInternal: segmented regions
  transform_data,                 \* srv.response.object_transforms[ii].data
  object_transform,               \* local of CloudCBInternal: the pose matrix
  now,                            \* ros::Time::now()
  alive,                          \* FALSE once the process has terminated
  ev                              \* what the last callback was given and did

vars == << capture_kinect_, recent_observations_, latest_requested_objects_,
           cmd_rec_time_, wait_for_recent_, num_observations_to_integrate_,
           pcl_visualization_, recent_cloud_, integrated_cloud,
           latest_object_poses_, latest_call_success_, perch_result_,
           goal_status, goal_object_ids, xmin_, xmax_, ymin_, ymax_,
           table_height_, table_removed_cloud, model_inliers, transform_data,
           object_transform, now, alive, ev >>

\* a response payload and the matrix built from it
poseVars == << transform_data, object_transform >>

\* the workspace limits and the locals of the workspace filter
filterVars == << xmin_, xmax_, ymin_, ymax_, table_height_,
                 table_removed_cloud, model_inliers >>

----------------------------------------------------------------------------
(* Bounds of the model.                                                    *)

\* largest integration count the configuration is drawn from
MaxIntegrate == 2
\* longest observation buffer explored (the code never bounds it)
MaxObs == 3
\* clock values 0..MaxTime
MaxTime == 1
\* SpecIntegrate: most clouds handed to the integrator
MaxClouds == 4
\* SpecIntegrate: finite depths are 1..MaxDepth
MaxDepth == 2

----------------------------------------------------------------------------
(* Points and organized clouds.                                            *)

\* a depth for which std::isnan(z) || !std::isfinite(z) holds
NaN == 0 - 1
\* a float read from beyond the end of a vector that is none of the depths
\* observed (such a read may also give NaN or, by chance, an observed depth)
Junk == 0 - 2

IsFiniteZ(z) == z # NaN

\* pixels of the grid in SpecIntegrate, and of the sensor in Spec
IntegPixels == {1, 2}
SensorPixels == {1}
SensorDepths == {1, 2}

MkPoint(px, z) == [x |-> px, y |-> 0, z |-> z, rgb |-> 10 * px]

MkCloud(pixels, zs) ==
  [width |-> Cardinality(pixels), height |-> 1, is_dense |-> FALSE,
   points |-> [i \in pixels |-> MkPoint(i, zs[i])]]

\* PointCloudPtr integrated_cloud(new PointCloud): no points, 0 x 0
EmptyCloud ==
  [width |-> 0, height |-> 0, is_dense |-> TRUE, points |-> << >>]

----------------------------------------------------------------------------
(* IntegrateOrganizedClouds, lines 457-514.                                *)

\* range_vals: the finite depths of pixel ii, in cloud order (lines 477-488)
RECURSIVE RangeVals(_, _)
RangeVals(point_clouds, ii) ==
  IF point_clouds = << >> THEN << >>
  ELSE LET z    == point_clouds[1].points[ii].z
           rest == RangeVals(Tail(point_clouds), ii)
       IN  IF IsFiniteZ(z) THEN << z >> \o rest ELSE rest

\* static_cast<int>(static_cast<double>(size) / 2.0 + 0.5): size/2.0 + 0.5 is
\* (size + 1)/2 exactly, and the cast truncates (lines 496-497)
Middle_LowerMedian(size) == (size - 1) \div 2
Middle(size) == (size + 1) \div 2

\* what std::nth_element leaves at 0-based position nth (nth < size): the
\* value a full ascending sort would put there (lines 499-500)
NthElement(range_vals, nth) ==
  CHOOSE v \in {range_vals[i] : i \in 1..Len(range_vals)} :
    /\ Cardinality({i \in 1..Len(range_vals) : range_vals[i] < v}) <= nth
    /\ Cardinality({i \in 1..Len(range_vals) : range_vals[i] <= v}) > nth

\* the values *(range_vals.begin() + middle) can yield (line 503); with
\* middle = size the read is one past the last element
MedianOutcomes(range_vals) ==
  LET middle == Middle(Len(range_vals))
  IN  IF middle < Len(range_vals)
      THEN {NthElement(range_vals, middle)}
      ELSE {NaN, Junk} \cup {range_vals[i] : i \in 1..Len(range_vals)}

\* the points integrated_cloud->points[ii] can end as (lines 490-506)
PointOutcomes_LastFrame(point_clouds, ii) ==
  LET range_vals == RangeVals(point_clouds, ii)
      last       == point_clouds[Len(point_clouds)].points[ii]
  IN  IF range_vals = << >> THEN {last}
      ELSE {[last EXCEPT !.z = m] : m \in MedianOutcomes(range_vals)}

PointOutcomes(point_clouds, ii) ==
  LET range_vals == RangeVals(point_clouds, ii)
      first      == point_clouds[1].points[ii]
  IN  IF range_vals = << >> THEN {first}
      ELSE {[first EXCEPT !.z = m] : m \in MedianOutcomes(range_vals)}

\* the clouds the call can return
IntegrateOrganizedClouds(point_clouds) ==
  IF point_clouds = << >> THEN {EmptyCloud}
  ELSE LET pix == DOMAIN point_clouds[1].points
       IN  {[width |-> point_clouds[1].width,
             height |-> point_clouds[1].height,
             is_dense |-> point_clouds[1].is_dense,
             points |-> pts] :
              pts \in {f \in [pix -> UNION {PointOutcomes(point_clouds, i) : i \in pix}] :
                         \A i \in pix : f[i] \in PointOutcomes(point_clouds, i)}}

----------------------------------------------------------------------------
(* Inputs of the callbacks.                                                *)

\* names a direct request can carry
ObjectNames == {"bowl"}
\* identifier lists a goal can carry (possibly empty)
GoalIdLists == {<< >>, << "mug" >>, << "mug", "bowl" >>}
\* keyboard::Key codes: 'c' and some other key
KeyCodes == {"c", "x"}
\* object_transforms of a response, as opaque transform values, for the
\* longest identifier list; a response to K identifiers carries the first K
ResponseTransforms == {<< 1, 2 >>}

\* the clouds a sensor frame can become after pcl_ros::transformPointCloud
SensorClouds ==
  {MkCloud(SensorPixels, zs) : zs \in [SensorPixels -> SensorDepths]}

\* tf::poseEigenToMsg of a response transform; a value-initialised Pose
PoseOf(t) == [tf |-> t]
DefaultPose == [tf |-> 0]

GoalStatuses == {"none", "active", "succeeded", "aborted"}

\* SimpleActionServer::isActive()
IsActive == goal_status = "active"

\* what a callback reports about itself; fields a callback does not reach
\* keep these defaults
NoEv ==
  [kind |-> "init", stamp |-> 0, tf_ok |-> TRUE, outcome |-> "-",
   integrated |-> FALSE, srv_called |-> FALSE, req_ids |-> << >>,
   pose_pubs |-> 0, marker_pubs |-> 0, viewer_touched |-> FALSE]

\* the workspace limits the parameters give when the filter is not under
\* study: x in [1, 2], y in [0, 1], table at 2 (lengths in units of 0.05 m)
DefaultLimits ==
  [xmin |-> 1, xmax |-> 2, ymin |-> 0, ymax |-> 1, table_height |-> 2]

----------------------------------------------------------------------------
(* The constructor, lines 52-106.  The parameters it reads are drawn from  *)
(* their ranges.  num_observations_to_integrate_ is set to 1 at line 55    *)
(* and is the configured integration count of CloudCB (lines 163-164); it  *)
(* is drawn from 1..MaxIntegrate.  cmd_rec_time_ is a default ros::Time.   *)

Init ==
  /\ capture_kinect_ = FALSE
  /\ recent_observations_ = << >>
  /\ latest_requested_objects_ = << >>
  /\ cmd_rec_time_ = 0
  /\ wait_for_recent_ \in BOOLEAN
  /\ num_observations_to_integrate_ \in 1..MaxIntegrate
  /\ pcl_visualization_ \in BOOLEAN
  /\ recent_cloud_ = EmptyCloud
  /\ integrated_cloud = EmptyCloud
  /\ latest_object_poses_ = << >>
  /\ latest_call_success_ = FALSE   \* written at line 322, never read
  /\ perch_result_ = << >>
  /\ goal_status = "none"
  /\ goal_object_ids = << >>
  /\ xmin_ = DefaultLimits.xmin /\ xmax_ = DefaultLimits.xmax
  /\ ymin_ = DefaultLimits.ymin /\ ymax_ = DefaultLimits.ymax
  /\ table_height_ = DefaultLimits.table_height
  /\ table_removed_cloud = EmptyCloud
  /\ model_inliers = << >>
  /\ transform_data = << >>
  /\ object_transform = << >>
  /\ now = 0
  /\ alive = TRUE
  /\ ev = NoEv

----------------------------------------------------------------------------
(* KeyboardCB, lines 415-421.                                              *)

KeyboardCB(code) ==
  /\ alive
  /\ capture_kinect_' = (IF code = "c" THEN TRUE ELSE capture_kinect_)
  /\ ev' = [NoEv EXCEPT !.kind = "key", !.outcome = code]
  /\ UNCHANGED << recent_observations_, latest_requested_objects_,
                  cmd_rec_time_, wait_for_recent_,
                  num_observations_to_integrate_, pcl_visualization_,
                  recent_cloud_, integrated_cloud, latest_object_poses_,
                  latest_call_success_, perch_result_, goal_status,
                  goal_object_ids, now, alive >>
  /\ UNCHANGED filterVars
  /\ UNCHANGED poseVars

(* RequestedObjectsCB, lines 423-436.                                      *)

RequestedObjectsCB(object_name) ==
  /\ alive
  /\ latest_requested_objects_' = << object_name >>
  /\ capture_kinect_' = TRUE
  /\ recent_observations_' = << >>
  /\ cmd_rec_time_' = (IF wait_for_recent_ THEN now ELSE cmd_rec_time_)
  /\ ev' = [NoEv EXCEPT !.kind = "request"]
  /\ UNCHANGED << wait_for_recent_, num_observations_to_integrate_,
                  pcl_visualization_, recent_cloud_, integrated_cloud,
                  latest_object_poses_, latest_call_success_, perch_result_,
                  goal_status, goal_object_ids, now, alive >>
  /\ UNCHANGED filterVars
  /\ UNCHANGED poseVars

(* PERCHGoalCB, lines 438-455. acceptNewGoal() makes the received goal the *)
(* current one (a goal still active is cancelled by it) and active.        *)

PERCHGoalCB_ArmsAlways(object_ids) ==
  /\ alive
  /\ latest_requested_objects_' = object_ids
  /\ goal_object_ids' = object_ids
  /\ capture_kinect_' = TRUE
  /\ IF object_ids = << >>
     THEN /\ perch_result_' = << >>
          /\ goal_status' = "aborted"
          /\ ev' = [NoEv EXCEPT !.kind = "goal", !.outcome = "aborted"]
     ELSE /\ goal_status' = "active"
          /\ ev' = [NoEv EXCEPT !.kind = "goal", !.outcome = "accepted"]
          /\ UNCHANGED perch_result_
  /\ UNCHANGED << recent_observations_, cmd_rec_time_, wait_for_recent_,
                  num_observations_to_integrate_, pcl_visualization_,
                  recent_cloud_, integrated_cloud, latest_object_poses_,
                  latest_call_success_, now, alive >>
  /\ UNCHANGED filterVars
  /\ UNCHANGED poseVars

PERCHGoalCB(object_ids) ==
  /\ alive
  /\ latest_requested_objects_' = object_ids
  /\ goal_object_ids' = object_ids
  /\ IF object_ids = << >>
     THEN /\ perch_result_' = << >>
          /\ goal_status' = "aborted"
          /\ ev' = [NoEv EXCEPT !.kind = "goal", !.outcome = "aborted"]
          /\ UNCHANGED capture_kinect_
     ELSE /\ goal_status' = "active"
          /\ capture_kinect_' = TRUE
          /\ ev' = [NoEv EXCEPT !.kind = "goal", !.outcome = "accepted"]
          /\ UNCHANGED perch_result_
  /\ UNCHANGED << recent_observations_, cmd_rec_time_, wait_for_recent_,
                  num_observations_to_integrate_, pcl_visualization_,
                  recent_cloud_, integrated_cloud, latest_object_poses_,
                  latest_call_success_, now, alive >>
  /\ UNCHANGED filterVars
  /\ UNCHANGED poseVars

(* ros::Time::now() advances between callbacks.  The clock is read only    *)
(* under wait_for_recent_ (lines 119-124 and 431-433), so it is advanced   *)
(* only there.                                                             *)

Tick ==
  /\ alive
  /\ wait_for_recent_
  /\ now < MaxTime
  /\ now' = now + 1
  /\ UNCHANGED << capture_kinect_, recent_observations_,
                  latest_requested_objects_, cmd_rec_time_, wait_for_recent_,
                  num_observations_to_integrate_, pcl_visualization_,
                  recent_cloud_, integrated_cloud, latest_object_poses_,
                  latest_call_success_, perch_result_, goal_status,
                  goal_object_ids, alive, ev >>
  /\ UNCHANGED filterVars
  /\ UNCHANGED poseVars

----------------------------------------------------------------------------
(* CloudCBInternal(const PointCloudPtr&), lines 190-413: the ways a call   *)
(* can end, each as the values it leaves behind.                           *)
(*  - lookupTransform(reference, camera) of line 279 throws               *)
(*    tf::TransformException; nothing catches it, so it leaves CloudCB and *)
(*    ros::spinOnce and ends the process;                                  *)
(*  - the service call returns false;                                      *)
(*  - the service call returns true with some object_transforms; viewer_   *)
(*    is assigned only when pcl_visualization_ is set (lines 100-105) yet  *)
(*    lines 353-367 use it in every iteration, so with the option off the  *)
(*    first iteration either faults or happens to return.                  *)

CamThrowOutcomes(base) ==
  {[base EXCEPT !.alive = FALSE, !.returned = FALSE,
                !.outcome = "cam_throw"]}

\* lines 320-322 and 405-412
ServiceFailedOutcomes_Partial(called) ==
  {[called EXCEPT !.call_success = FALSE,
                  !.outcome = "srv_failed",
                  !.goal = IF IsActive THEN "aborted" ELSE @]}

ServiceFailedOutcomes(called) ==
  {[called EXCEPT !.poses = << >>,
                  !.call_success = FALSE,
                  !.outcome = "srv_failed",
                  !.result = IF IsActive THEN << >> ELSE @,
                  !.goal = IF IsActive THEN "aborted" ELSE @]}

\* lines 320-404
ServiceSucceededOutcomes(called, ids) ==
  LET faulted ==
        [called EXCEPT !.poses = [i \in 1..Len(ids) |-> DefaultPose],
                       !.call_success = TRUE,
                       !.alive = FALSE, !.returned = FALSE,
                       !.outcome = "viewer_fault",
                       !.viewer_touched = TRUE]
      Published(resp) ==
        LET poses == [i \in 1..Len(ids) |-> PoseOf(resp[i])]
        IN [called EXCEPT !.poses = poses,
                          !.call_success = TRUE,
                          !.outcome = "published",
                          !.viewer_touched = pcl_visualization_ \/ ids # << >>,
                          !.marker_pubs = Len(ids),
                          !.pose_pubs = IF ids # << >> THEN 1 ELSE 0,
                          !.result = IF IsActive THEN poses ELSE @,
                          !.goal = IF IsActive THEN "succeeded" ELSE @]
  IN  {Published(resp) : resp \in ResponseTransforms}
        \cup (IF ids # << >> /\ ~pcl_visualization_ THEN {faulted} ELSE {})

CloudCBInternal(original_cloud) ==
  LET ids  == latest_requested_objects_
      base == [recent_cloud |-> original_cloud,
               poses |-> latest_object_poses_,
               call_success |-> latest_call_success_,
               result |-> perch_result_,
               goal |-> goal_status,
               alive |-> TRUE,
               returned |-> TRUE,
               outcome |-> "-",
               srv_called |-> FALSE,
               req_ids |-> << >>,
               pose_pubs |-> 0,
               marker_pubs |-> 0,
               viewer_touched |-> pcl_visualization_]
      called == [base EXCEPT !.srv_called = TRUE, !.req_ids = ids]
  IN  CamThrowOutcomes(base)
        \cup ServiceFailedOutcomes(called)
        \cup ServiceSucceededOutcomes(called, ids)

----------------------------------------------------------------------------
(* CloudCB, lines 108-177.                                                 *)

\* lines 119-124
IsStale_OrEqual(stamp) == wait_for_recent_ /\ stamp <= cmd_rec_time_
IsStale(stamp) == wait_for_recent_ /\ stamp < cmd_rec_time_

\* header.stamp of a frame arriving now; the callback reads it only under
\* wait_for_recent_
Stamps == IF wait_for_recent_ THEN 0..now ELSE {0}

FrameEv(stamp, outcome) ==
  [NoEv EXCEPT !.kind = "frame", !.stamp = stamp, !.outcome = outcome]

\* the cloud CloudCB hands to CloudCBInternal (line 173; line 172 is
\* commented out)
HandedCloud(pcl_cloud, integrated) == pcl_cloud

\* what line 160 does to the buffer when lookupTransform of line 129 threw
\* (tf_ok = FALSE): the catch block of lines 131-135 only logs, and the frame,
\* transformed by the default-constructed transform, is pushed like any other
Buffered(buffer, pcl_cloud, tf_ok) == Append(buffer, pcl_cloud)

\* lines 111-113
Disarmed_Never == FALSE
Disarmed == ~capture_kinect_

CloudCB ==
  /\ alive
  /\ IF Disarmed
     THEN /\ ev' = FrameEv(0, "disarmed")
          /\ UNCHANGED << capture_kinect_, recent_observations_,
                          recent_cloud_, latest_object_poses_,
                          latest_call_success_, perch_result_, goal_status,
                          alive >>
     ELSE \E stamp \in Stamps :
       IF IsStale(stamp)
       THEN /\ ev' = FrameEv(stamp, "stale")
            /\ UNCHANGED << capture_kinect_, recent_observations_,
                            recent_cloud_, latest_object_poses_,
                            latest_call_success_, perch_result_, goal_status,
                            alive >>
       ELSE \E tf_ok \in BOOLEAN, pcl_cloud \in SensorClouds :
            /\ Len(recent_observations_) < MaxObs
            /\ recent_observations_' =
                 Buffered(recent_observations_, pcl_cloud, tf_ok)
            /\ IF Len(recent_observations_') < num_observations_to_integrate_
               THEN /\ ev' = [FrameEv(stamp, "buffered") EXCEPT !.tf_ok = tf_ok]
                    /\ UNCHANGED << capture_kinect_, recent_cloud_,
                                    latest_object_poses_, latest_call_success_,
                                    perch_result_, goal_status, alive >>
               ELSE \E integrated \in
                         IntegrateOrganizedClouds(recent_observations_') :
                    \E r \in CloudCBInternal(HandedCloud(pcl_cloud, integrated)) :
                      /\ recent_cloud_' = r.recent_cloud
                      /\ latest_object_poses_' = r.poses
                      /\ latest_call_success_' = r.call_success
                      /\ perch_result_' = r.result
                      /\ goal_status' = r.goal
                      /\ alive' = r.alive
                      /\ capture_kinect_' =
                           (IF r.returned THEN FALSE ELSE capture_kinect_)
                      /\ ev' = [FrameEv(stamp, r.outcome) EXCEPT
                                  !.tf_ok = tf_ok,
                                  !.integrated = TRUE,
                                  !.srv_called = r.srv_called,
                                  !.req_ids = r.req_ids,
                                  !.pose_pubs = r.pose_pubs,
                                  !.marker_pubs = r.marker_pubs,
                                  !.viewer_touched = r.viewer_touched]
  /\ UNCHANGED << latest_requested_objects_, cmd_rec_time_, wait_for_recent_,
                  num_observations_to_integrate_, pcl_visualization_,
                  integrated_cloud, goal_object_ids, now >>
  /\ UNCHANGED filterVars
  /\ UNCHANGED poseVars

Next ==
  \/ \E code \in KeyCodes : KeyboardCB(code)
  \/ \E object_name \in ObjectNames : RequestedObjectsCB(object_name)
  \/ \E object_ids \in GoalIdLists : PERCHGoalCB(object_ids)
  \/ CloudCB
  \/ Tick

Spec == Init /\ [][Next]_vars

----------------------------------------------------------------------------
(* SpecLive: the callbacks under the conditions a capture needs to end:    *)
(* every lookupTransform succeeds, the recognition call returns (with      *)
(* either result), and a frame no older than the request keeps being       *)
(* delivered (subscriber queue of the main loop, ros::spinOnce).  One      *)
(* capture is in flight at a time: a request, a goal or the capture key    *)
(* arrives only while the gate is disarmed, and a capture is started only  *)
(* while the buffer explored has room for its frames.                      *)

RoomToCapture == Len(recent_observations_) < MaxObs

\* no capture is in flight
Idle == ~capture_kinect_

\* a CloudCB call in which both lookups succeed
LookupsSucceed == ev'.tf_ok /\ ev'.outcome # "cam_throw"

\* a CloudCB call on a frame the armed gate accepts
FreshFrame ==
  /\ CloudCB
  /\ LookupsSucceed
  /\ ev'.outcome \notin {"disarmed", "stale"}

NextLive ==
  \/ \E code \in KeyCodes :
       KeyboardCB(code) /\ (code = "c" => (Idle /\ RoomToCapture))
  \/ \E object_name \in ObjectNames :
       Idle /\ RequestedObjectsCB(object_name)
  \/ \E object_ids \in GoalIdLists :
       /\ Idle
       /\ PERCHGoalCB(object_ids)
       /\ object_ids # << >> => RoomToCapture
  \/ CloudCB /\ LookupsSucceed
  \/ Tick

SpecLive == Init /\ [][NextLive]_vars /\ WF_vars(FreshFrame)

----------------------------------------------------------------------------
(* SpecIntegrate: IntegrateOrganizedClouds on every sequence of at most    *)
(* MaxClouds clouds of one size.  Pixel 1 sees a no-return or a depth in   *)
(* 1..MaxDepth, pixel 2 a no-return or depth 1; the frames of an input     *)
(* differ in colour.                                                       *)

IntegDepths(px) == IF px = 1 THEN {NaN} \cup (1..MaxDepth) ELSE {NaN, 1}

IntegClouds ==
  {MkCloud(IntegPixels, zs) :
     zs \in {f \in [IntegPixels -> {NaN} \cup (1..MaxDepth)] :
               \A px \in IntegPixels : f[px] \in IntegDepths(px)}}

\* a cloud as the j-th frame of a capture: no two frames give a pixel the
\* same colour
FrameAt(cloud, j) ==
  [cloud EXCEPT !.points =
     [i \in DOMAIN cloud.points |-> [cloud.points[i] EXCEPT !.rgb = @ + j]]]

IntegInputs == UNION {[1..n -> IntegClouds] : n \in 0..MaxClouds}

InitIntegrate ==
  /\ capture_kinect_ = TRUE
  /\ \E clouds \in IntegInputs :
       recent_observations_ = [j \in DOMAIN clouds |-> FrameAt(clouds[j], j)]
  /\ latest_requested_objects_ = << >>
  /\ cmd_rec_time_ = 0
  /\ wait_for_recent_ = FALSE
  /\ num_observations_to_integrate_ = 1
  /\ pcl_visualization_ = FALSE
  /\ recent_cloud_ = EmptyCloud
  /\ integrated_cloud = EmptyCloud
  /\ latest_object_poses_ = << >>
  /\ latest_call_success_ = FALSE
  /\ perch_result_ = << >>
  /\ goal_status = "none"
  /\ goal_object_ids = << >>
  /\ xmin_ = DefaultLimits.xmin /\ xmax_ = DefaultLimits.xmax
  /\ ymin_ = DefaultLimits.ymin /\ ymax_ = DefaultLimits.ymax
  /\ table_height_ = DefaultLimits.table_height
  /\ table_removed_cloud = EmptyCloud
  /\ model_inliers = << >>
  /\ transform_data = << >>
  /\ object_transform = << >>
  /\ now = 0
  /\ alive = TRUE
  /\ ev = NoEv

\* the call of lines 168-169
IntegrateCall ==
  /\ ev.kind = "init"
  /\ integrated_cloud' \in IntegrateOrganizedClouds(recent_observations_)
  /\ ev' = [NoEv EXCEPT !.kind = "integrate", !.integrated = TRUE]
  /\ UNCHANGED << capture_kinect_, recent_observations_,
                  latest_requested_objects_, cmd_rec_time_, wait_for_recent_,
                  num_observations_to_integrate_, pcl_visualization_,
                  recent_cloud_, latest_object_poses_, latest_call_success_,
                  perch_result_, goal_status, goal_object_ids, now, alive >>
  /\ UNCHANGED filterVars
  /\ UNCHANGED poseVars

NextIntegrate == IntegrateCall

SpecIntegrate == InitIntegrate /\ [][NextIntegrate]_vars

----------------------------------------------------------------------------
(* The workspace filter of CloudCBInternal, lines 218-276.  Lengths are in *)
(* units of 0.05 m, so the z limits of line 240, table_height_ - 0.1 and   *)
(* table_height_ + 0.55, are table_height_ - 2 and table_height_ + 11.     *)

\* pcl_isfinite of a coordinate
IsFinite(v) == v # NaN

\* what pcl::PassThrough drops for the limits [lo, hi] on a field: a point
\* with a non-finite coordinate, or with the field outside the limits
OutOfLimits(point, field, lo, hi) ==
  \/ ~IsFinite(point.x) \/ ~IsFinite(point.y) \/ ~IsFinite(point.z)
  \/ point[field] < lo
  \/ point[field] > hi

\* pt_filter.filter() after setKeepOrganized(true) (lines 220-243): the
\* output is the input with x, y and z of every dropped point set to NaN
PassThrough_Unorganized(cloud, field, lo, hi) ==
  LET kept == SelectSeq(cloud.points,
                        LAMBDA point : ~OutOfLimits(point, field, lo, hi))
  IN  [cloud EXCEPT !.width = Len(kept), !.height = 1, !.points = kept]

PassThrough(cloud, field, lo, hi) ==
  [cloud EXCEPT
     !.is_dense = FALSE,
     !.points =
       [i \in DOMAIN cloud.points |->
          IF OutOfLimits(cloud.points[i], field, lo, hi)
          THEN [cloud.points[i] EXCEPT !.x = NaN, !.y = NaN, !.z = NaN]
          ELSE cloud.points[i]]]

\* the three filters of lines 219-243, on x, then y, then z
BoundingFilter(cloud) ==
  PassThrough(
    PassThrough(
      PassThrough(cloud, "x", xmin_, xmax_),
      "y", ymin_, ymax_),
    "z", table_height_ - 2, table_height_ + 11)

\* indices of the points of a cloud that have coordinates
ValidIndices(cloud) ==
  {i \in DOMAIN cloud.points : IsFinite(cloud.points[i].z)}

\* perception_utils::OrganizedSegmentation (called at line 253): the
\* model_inliers it can return for a cloud, zero to two planar regions, each
\* a non-empty set of indices of points with coordinates, no index in two
OrganizedSegmentation(cloud) ==
  LET regions == (SUBSET ValidIndices(cloud)) \ {{}}
  IN  {<< >>} \cup {<< r >> : r \in regions}
        \cup {rq \in regions \X regions : rq[1] \cap rq[2] = {}}

\* perception_utils::IndexFilter(cloud, indices, true) (called at line 257):
\* the points at the indices are kept, every other point is made invalid
IndexFilter(cloud, indices) ==
  [cloud EXCEPT
     !.is_dense = FALSE,
     !.points =
       [i \in DOMAIN cloud.points |->
          IF i \in indices
          THEN cloud.points[i]
          ELSE [cloud.points[i] EXCEPT !.x = NaN, !.y = NaN, !.z = NaN]]]

\* lines 269-276: the colour of every point with a non-finite depth is set
\* to black
BlackenFiltered_Nothing(cloud) == cloud

BlackenFiltered(cloud) ==
  [cloud EXCEPT
     !.points =
       [i \in DOMAIN cloud.points |->
          IF ~IsFiniteZ(cloud.points[i].z)
          THEN [cloud.points[i] EXCEPT !.rgb = 0]
          ELSE cloud.points[i]]]

\* lines 255-260 and 269-276 on the bounded cloud and the regions found
IsolatedAndBlackened_IsolatesAlways(bounded, regions) ==
  BlackenFiltered(IndexFilter(bounded,
                              IF regions # << >> THEN regions[1] ELSE {}))

IsolatedAndBlackened_LastRegion(bounded, regions) ==
  BlackenFiltered(IF regions # << >>
                  THEN IndexFilter(bounded, regions[Len(regions)])
                  ELSE bounded)

IsolatedAndBlackened(bounded, regions) ==
  BlackenFiltered(IF regions # << >>
                  THEN IndexFilter(bounded, regions[1])
                  ELSE bounded)

\* SpecFilter: clouds of three pixels in a row; a pixel is a no-return, a
\* point inside every limit drawn, or a point that some limits drop on x, on
\* y or on z
FilterPixels == {1, 2, 3}

FilterCoordinates ==
  {<< NaN, NaN, NaN >>, << 1, 0, 1 >>, << 3, 0, 1 >>, << 1, 2, 1 >>,
   << 1, 0, 14 >>}

FilterClouds ==
  {[width |-> Cardinality(FilterPixels), height |-> 1, is_dense |-> FALSE,
    points |-> [i \in FilterPixels |->
                  [x |-> c[i][1], y |-> c[i][2], z |-> c[i][3],
                   rgb |-> 10 * i]]] :
     c \in [FilterPixels -> FilterCoordinates]}

\* the limits the parameters can give, xmin_ > xmax_ among them
FilterLimits ==
  {[xmin |-> a, xmax |-> b, ymin |-> 0, ymax |-> c, table_height |-> t] :
     a \in {1, 2}, b \in {1, 3}, c \in {1, 2}, t \in {2, 3}}

InitFilter ==
  /\ capture_kinect_ = TRUE
  /\ recent_observations_ = << >>
  /\ latest_requested_objects_ = << "bowl" >>
  /\ cmd_rec_time_ = 0
  /\ wait_for_recent_ = FALSE
  /\ num_observations_to_integrate_ = 1
  /\ pcl_visualization_ = FALSE
  /\ recent_cloud_ \in FilterClouds
  /\ integrated_cloud = EmptyCloud
  /\ latest_object_poses_ = << >>
  /\ latest_call_success_ = FALSE
  /\ perch_result_ = << >>
  /\ goal_status = "none"
  /\ goal_object_ids = << >>
  /\ \E limits \in FilterLimits :
       /\ xmin_ = limits.xmin /\ xmax_ = limits.xmax
       /\ ymin_ = limits.ymin /\ ymax_ = limits.ymax
       /\ table_height_ = limits.table_height
  /\ table_removed_cloud = EmptyCloud
  /\ model_inliers = << >>
  /\ transform_data = << >>
  /\ object_transform = << >>
  /\ now = 0
  /\ alive = TRUE
  /\ ev = NoEv

\* lines 218-321 on the cloud of line 192: the filter, then either
\* lookupTransform of line 279 throws and ends the process, or the request
\* is sent with table_removed_cloud as its input_organized_cloud (line 318)
FilterCall ==
  /\ ev.kind = "init"
  /\ LET bounded == BoundingFilter(recent_cloud_)
     IN  \E regions \in OrganizedSegmentation(bounded) :
           /\ model_inliers' = regions
           /\ table_removed_cloud' = IsolatedAndBlackened(bounded, regions)
  /\ \/ /\ alive' = FALSE
        /\ ev' = [NoEv EXCEPT !.kind = "filter", !.outcome = "cam_throw"]
     \/ /\ alive' = alive
        /\ ev' = [NoEv EXCEPT !.kind = "filter", !.outcome = "dispatched",
                              !.srv_called = TRUE,
                              !.req_ids = latest_requested_objects_]
  /\ UNCHANGED << capture_kinect_, recent_observations_,
                  latest_requested_objects_, cmd_rec_time_, wait_for_recent_,
                  num_observations_to_integrate_, pcl_visualization_,
                  recent_cloud_, integrated_cloud, latest_object_poses_,
                  latest_call_success_, perch_result_, goal_status,
                  goal_object_ids, xmin_, xmax_, ymin_, ymax_, table_height_,
                  now >>
  /\ UNCHANGED poseVars

NextFilter == FilterCall

SpecFilter == InitFilter /\ [][NextFilter]_vars

----------------------------------------------------------------------------
(* The pose matrix of CloudCBInternal, lines 337-340.  A payload is the    *)
(* 16 values of object_transforms[ii].data, data[k + 1] here being the     *)
(* value at 0-based offset k; a matrix is rows 0..3 of columns 0..3.       *)

\* Eigen::Matrix4d eigen_pose(data.data()) (line 337): Matrix4d is stored
\* column-major, so the value at offset k lands in row k % 4, column k / 4
MatrixFromData(data) ==
  [r \in 0..3 |-> [c \in 0..3 |-> data[r + 4 * c + 1]]]

\* Eigen's transpose()
Transpose(m) == [r \in 0..3 |-> [c \in 0..3 |-> m[c][r]]]

\* object_transform.matrix() = eigen_pose.transpose() (line 340)
ObjectTransform_NoTranspose(data) == MatrixFromData(data)

ObjectTransform(data) == Transpose(MatrixFromData(data))

\* SpecPose: payloads with a 1 at one offset and a 2 added at another
Offsets == 1..16

Payloads ==
  {[k \in Offsets |-> (IF k = a THEN 1 ELSE 0) + (IF k = b THEN 2 ELSE 0)] :
     a \in Offsets, b \in Offsets}

InitPose ==
  /\ capture_kinect_ = TRUE
  /\ recent_observations_ = << >>
  /\ latest_requested_objects_ = << "bowl" >>
  /\ cmd_rec_time_ = 0
  /\ wait_for_recent_ = FALSE
  /\ num_observations_to_integrate_ = 1
  /\ pcl_visualization_ = TRUE
  /\ recent_cloud_ = EmptyCloud
  /\ integrated_cloud = EmptyCloud
  /\ latest_object_poses_ = << >>
  /\ latest_call_success_ = TRUE
  /\ perch_result_ = << >>
  /\ goal_status = "none"
  /\ goal_object_ids = << >>
  /\ xmin_ = DefaultLimits.xmin /\ xmax_ = DefaultLimits.xmax
  /\ ymin_ = DefaultLimits.ymin /\ ymax_ = DefaultLimits.ymax
  /\ table_height_ = DefaultLimits.table_height
  /\ table_removed_cloud = EmptyCloud
  /\ model_inliers = << >>
  /\ transform_data \in Payloads
  /\ object_transform = << >>
  /\ now = 0
  /\ alive = TRUE
  /\ ev = NoEv

\* lines 337-340 on one payload of the response
PoseCall ==
  /\ ev.kind = "init"
  /\ object_transform' = ObjectTransform(transform_data)
  /\ ev' = [NoEv EXCEPT !.kind = "pose"]
  /\ UNCHANGED << capture_kinect_, recent_observations_,
                  latest_requested_objects_, cmd_rec_time_, wait_for_recent_,
                  num_observations_to_integrate_, pcl_visualization_,
                  recent_cloud_, integrated_cloud, latest_object_poses_,
                  latest_call_success_, perch_result_, goal_status,
                  goal_object_ids, transform_data, now, alive >>
  /\ UNCHANGED filterVars

NextPose == PoseCall

SpecPose == InitPose /\ [][NextPose]_vars

----------------------------------------------------------------------------
(* Vocabulary of the properties.                                           *)

\* vals in ascending order (insertion sort)
RECURSIVE Insert(_, _)
Insert(v, sorted) ==
  IF sorted = << >> THEN << v >>
  ELSE IF v <= Head(sorted) THEN << v >> \o sorted
  ELSE << Head(sorted) >> \o Insert(v, Tail(sorted))

RECURSIVE Ascending(_)
Ascending(vals) ==
  IF vals = << >> THEN << >> ELSE Insert(Head(vals), Ascending(Tail(vals)))

\* the finite depths the buffered frames hold at pixel i, in ascending order
FiniteDepths(i) == Ascending(RangeVals(recent_observations_, i))

Integrated == ev.kind = "integrate"

\* the step is a CloudCB call that found the gate armed
ArmedFrameStep ==
  /\ ev'.kind = "frame"
  /\ now' = now
  /\ alive
  /\ capture_kinect_

----------------------------------------------------------------------------
(* Properties of IntegrateOrganizedClouds (SpecIntegrate).                 *)

\* C3: for every pixel with an odd number n of finite depths over the
\* buffered frames, the integrated depth is the exact median, the
\* ((n+1)/2)-th smallest of them.
C3_OddCountMedian ==
  Integrated =>
    \A i \in DOMAIN integrated_cloud.points :
      LET d == FiniteDepths(i)
      IN  Len(d) % 2 = 1 => integrated_cloud.points[i].z = d[(Len(d) + 1) \div 2]

C19_FirstFramePointKept ==
  Integrated =>
    \A i \in DOMAIN integrated_cloud.points :
      LET first == recent_observations_[1].points[i]
          out   == integrated_cloud.points[i]
      IN  IF FiniteDepths(i) = << >>
          THEN out = first
          ELSE [out EXCEPT !.z = first.z] = first

\* C19 witness: three frames were integrated; pixel 2 has no finite depth in
\* any of them and came out as the first frame's point, pixel 1 has a finite
\* depth in the later frames only and came out with the first frame's
\* position and colour.
C19_Witness ==
  /\ Integrated
  /\ Len(recent_observations_) = 3
  /\ FiniteDepths(2) = << >>
  /\ integrated_cloud.points[2] = recent_observations_[1].points[2]
  /\ integrated_cloud.points[2] # recent_observations_[2].points[2]
  /\ ~IsFiniteZ(recent_observations_[1].points[1].z)
  /\ Len(FiniteDepths(1)) = 2
  /\ IsFiniteZ(integrated_cloud.points[1].z)
  /\ integrated_cloud.points[1].rgb = recent_observations_[1].points[1].rgb

\* C26: for every pixel with at least one finite depth, the index used to
\* select the depth is a position of the pixel's collection of finite depths
\* (0 <= index < count), and the integrated depth is one of those depths.
C26_MedianIndexInRange ==
  Integrated =>
    \A i \in DOMAIN integrated_cloud.points :
      LET vals == RangeVals(recent_observations_, i)
      IN  vals # << >> =>
            /\ 0 <= Middle(Len(vals))
            /\ Middle(Len(vals)) < Len(vals)
            /\ integrated_cloud.points[i].z
                 \in {vals[k] : k \in 1..Len(vals)}

----------------------------------------------------------------------------
(* Properties of the workspace filter (SpecFilter).                        *)

Filtered == ev.kind = "filter"

\* C20: the filtered cloud has the width, the height and the number of
\* points of the cloud the filter was given, whatever the limits and
\* whatever regions the segmentation found.
C20_FilterKeepsGrid ==
  Filtered =>
    /\ table_removed_cloud.width = recent_cloud_.width
    /\ table_removed_cloud.height = recent_cloud_.height
    /\ DOMAIN table_removed_cloud.points = DOMAIN recent_cloud_.points
    /\ Len(table_removed_cloud.points)
         = table_removed_cloud.width * table_removed_cloud.height

\* C20 witness: of three points with coordinates the limits dropped one and
\* the isolation of the first of two regions another; the filtered cloud
\* still has three points, one of them with coordinates.
C20_Witness ==
  /\ Filtered
  /\ Cardinality(ValidIndices(recent_cloud_)) = 3
  /\ Len(model_inliers) = 2
  /\ Cardinality(ValidIndices(table_removed_cloud)) = 1
  /\ Len(table_removed_cloud.points) = 3
  /\ table_removed_cloud.width = 3

\* C21: when the segmentation finds no region, every point of the cloud
\* put in the request is the point the bounding filters left, but for a
\* black colour where its depth is not finite; the grid is that of the
\* bounded cloud; and the request is sent whenever the camera pose resolves.
C21_NoRegionPassesBounded ==
  (Filtered /\ model_inliers = << >>) =>
    LET bounded == BoundingFilter(recent_cloud_)
    IN  /\ table_removed_cloud.width = bounded.width
        /\ table_removed_cloud.height = bounded.height
        /\ DOMAIN table_removed_cloud.points = DOMAIN bounded.points
        /\ \A i \in DOMAIN bounded.points :
             table_removed_cloud.points[i] =
               IF IsFiniteZ(bounded.points[i].z)
               THEN bounded.points[i]
               ELSE [bounded.points[i] EXCEPT !.rgb = 0]
        /\ ev.outcome # "cam_throw" => (ev.srv_called /\ alive)

\* C21 witness: no region was found in a cloud of three points with
\* coordinates of which the limits dropped one; the request was sent with
\* the two others unchanged.
C21_Witness ==
  /\ Filtered
  /\ model_inliers = << >>
  /\ ev.srv_called
  /\ Cardinality(ValidIndices(recent_cloud_)) = 3
  /\ Cardinality(ValidIndices(table_removed_cloud)) = 2
  /\ \A i \in ValidIndices(table_removed_cloud) :
       table_removed_cloud.points[i] = recent_cloud_.points[i]

\* C22: when the segmentation finds one or more regions, the points at the
\* indices of the first region returned have coordinates in the filtered
\* cloud and every other point has none, whatever the other regions are.
C22_FirstRegionIsolated ==
  (Filtered /\ model_inliers # << >>) =>
    \A i \in DOMAIN table_removed_cloud.points :
      LET out == table_removed_cloud.points[i]
      IN  IF i \in model_inliers[1]
          THEN IsFinite(out.x) /\ IsFinite(out.y) /\ IsFinite(out.z)
          ELSE ~IsFinite(out.x) /\ ~IsFinite(out.y) /\ ~IsFinite(out.z)

\* C22 witness: two regions were found, the first of one point and the
\* second of two; only the point of the first has coordinates.
C22_Witness ==
  /\ Filtered
  /\ Len(model_inliers) = 2
  /\ Cardinality(model_inliers[1]) = 1
  /\ Cardinality(model_inliers[2]) = 2
  /\ ValidIndices(table_removed_cloud) = model_inliers[1]

\* C23: in the cloud put in a request, every point whose depth is not finite
\* is black, and every point with a finite depth has the colour it had in
\* the cloud given to the filter.
C23_InvalidPointsBlack ==
  (Filtered /\ ev.srv_called) =>
    \A i \in DOMAIN table_removed_cloud.points :
      table_removed_cloud.points[i].rgb =
        IF IsFiniteZ(table_removed_cloud.points[i].z)
        THEN recent_cloud_.points[i].rgb
        ELSE 0

\* C23 witness: a request was sent with a cloud in which a no-return of the
\* sensor and a point dropped by the limits are black and a third point has
\* its depth and colour.
C23_Witness ==
  /\ Filtered
  /\ ev.srv_called
  /\ \E i, j, k \in DOMAIN table_removed_cloud.points :
       /\ ~IsFiniteZ(recent_cloud_.points[i].z)
       /\ recent_cloud_.points[i].rgb # 0
       /\ table_removed_cloud.points[i].rgb = 0
       /\ IsFiniteZ(recent_cloud_.points[j].z)
       /\ ~IsFiniteZ(table_removed_cloud.points[j].z)
       /\ table_removed_cloud.points[j].rgb = 0
       /\ IsFiniteZ(table_removed_cloud.points[k].z)
       /\ table_removed_cloud.points[k].rgb = recent_cloud_.points[k].rgb
       /\ table_removed_cloud.points[k].rgb # 0

----------------------------------------------------------------------------
(* Properties of the pose matrix (SpecPose).                               *)

\* C24: the pose matrix M built from a 16-value payload d has
\* M[r][c] = d[4*r + c] for all rows r and columns c in 0..3 (offsets of d
\* counted from 0).
C24_PoseMatrixRowMajor ==
  ev.kind = "pose" =>
    \A r \in 0..3 : \A c \in 0..3 :
      object_transform[r][c] = transform_data[4 * r + c + 1]

\* C24 witness: the payload has a 1 at offset 1 and a 2 at offset 12; the
\* matrix has the 1 in row 0, column 1 and the 2 in row 3, column 0, and
\* zeros at the mirrored places.
C24_Witness ==
  /\ ev.kind = "pose"
  /\ transform_data[2] = 1
  /\ transform_data[13] = 2
  /\ object_transform[0][1] = 1
  /\ object_transform[1][0] = 0
  /\ object_transform[3][0] = 2
  /\ object_transform[0][3] = 0

----------------------------------------------------------------------------
(* Properties of the callbacks (Spec).                                     *)

\* the step is a capture request that arms the gate: a direct request, or a
\* goal accepted with a non-empty identifier list
ArmingStep ==
  /\ now' = now
  /\ alive
  /\ \/ ev'.kind = "request"
     \/ ev'.kind = "goal" /\ ev'.outcome = "accepted"

\* C1: a frame that arrives while the gate is armed and whose
\* frame-to-reference lookup fails is dropped: the buffer is not extended,
\* no integration or recognition call is triggered, the gate stays armed.
\* (Stated for callbacks in which nothing else fails.)
C1_FailedLookupDropsFrame ==
  [][(ArmedFrameStep /\ ~ev'.tf_ok
        /\ ev'.outcome \in {"buffered", "published"}) =>
       /\ recent_observations_' = recent_observations_
       /\ ~ev'.integrated
       /\ ~ev'.srv_called
       /\ capture_kinect_']_vars

\* C2: with an integration count above 1, every pixel depth of the cloud
\* handed to the workspace filter is a depth the integrator selects for that
\* pixel over the buffered frames.  (Stated for captures that run to
\* publication with no failure.)
C2_FilterInputIsIntegrated ==
  (/\ ev.kind = "frame" /\ ev.tf_ok /\ ev.outcome = "published"
   /\ num_observations_to_integrate_ > 1) =>
    \A i \in DOMAIN recent_cloud_.points :
      recent_cloud_.points[i].z \in
        {c.points[i].z : c \in IntegrateOrganizedClouds(recent_observations_)}

\* C5: arming a capture, by a direct request or by an accepted goal, leaves
\* the observation buffer empty.
C5_ArmingResetsBuffer ==
  [][ArmingStep => recent_observations_' = << >>]_vars

\* C6: the buffer never holds more frames than the integration count, and
\* once a capture has completed (the buffer reached the count, integration
\* ran and the gate is disarmed) the buffer holds no frames.
C6_BufferClearedAndBounded ==
  /\ Len(recent_observations_) <= num_observations_to_integrate_
  /\ (/\ ev.kind = "frame" /\ ev.tf_ok /\ ev.outcome = "published"
      /\ ~capture_kinect_) => recent_observations_ = << >>

\* C7: with staleness gating enabled, arming a capture from either origin
\* records the time of that request as the issue timestamp.
C7_ArmingRecordsIssueTime ==
  [][(ArmingStep /\ wait_for_recent_) => cmd_rec_time_' = now]_vars

\* C8: with staleness gating enabled, a direct request at time T records T,
\* empties the buffer and arms the gate; a frame stamped before T that
\* arrives while armed leaves the buffer and the gate as they are; a frame
\* stamped at or after T is appended to the buffer.
C8_StalenessGate ==
  [][/\ (now' = now /\ alive /\ ev'.kind = "request" /\ wait_for_recent_) =>
          /\ cmd_rec_time_' = now
          /\ recent_observations_' = << >>
          /\ capture_kinect_'
     /\ (ArmedFrameStep /\ wait_for_recent_ /\ ev'.stamp < cmd_rec_time_) =>
          /\ ev'.outcome = "stale"
          /\ recent_observations_' = recent_observations_
          /\ capture_kinect_'
     /\ (ArmedFrameStep /\ wait_for_recent_ /\ ev'.stamp >= cmd_rec_time_) =>
          /\ ev'.outcome \notin {"stale", "disarmed"}
          /\ Len(recent_observations_') = Len(recent_observations_) + 1
          /\ SubSeq(recent_observations_', 1, Len(recent_observations_))
               = recent_observations_]_vars

\* C8 witness: after a direct request at time 1 a frame stamped 0 has been
\* rejected, the buffer is empty and the gate armed.
C8_Witness ==
  /\ wait_for_recent_
  /\ ev.kind = "frame" /\ ev.outcome = "stale" /\ ev.stamp = 0
  /\ cmd_rec_time_ = 1
  /\ latest_requested_objects_ = << "bowl" >>
  /\ recent_observations_ = << >>
  /\ capture_kinect_

\* C9: when resolving the camera pose fails, no recognition call is made,
\* nothing is published, an active goal is marked aborted, and the gate is
\* disarmed with the process running.  (Stated for frames whose own
\* frame-to-reference lookup succeeded.)
C9_CameraPoseFailureAborts ==
  [][(ArmedFrameStep /\ ev'.tf_ok /\ ev'.outcome = "cam_throw") =>
       /\ ~ev'.srv_called
       /\ ev'.pose_pubs = 0 /\ ev'.marker_pubs = 0
       /\ goal_status = "active" => goal_status' = "aborted"
       /\ ~capture_kinect_'
       /\ alive']_vars

\* C10: after a per-frame transform failure, a camera-pose failure, a
\* recognition service failure or an empty-identifier goal the process is
\* still running, and after a camera-pose or service failure the gate is
\* disarmed (Idle).  (Each failure is taken alone in its callback.)
C10_NoFailureIsFatal ==
  [][(now' = now /\ alive) =>
       /\ (ev'.kind = "frame" /\ ~ev'.tf_ok
             /\ ev'.outcome \in {"buffered", "published", "srv_failed"}) =>
            alive'
       /\ (ev'.kind = "frame" /\ ev'.tf_ok
             /\ ev'.outcome \in {"cam_throw", "srv_failed"}) =>
            alive' /\ ~capture_kinect_'
       /\ (ev'.kind = "goal" /\ ev'.outcome = "aborted") =>
            alive']_vars

----------------------------------------------------------------------------
(* Properties of the recognition round trip (Spec).                        *)

\* the step is a CloudCB call
FrameStep ==
  /\ ev'.kind = "frame"
  /\ now' = now
  /\ alive

\* C11: on a successful response for K requested identifiers, K poses are
\* published on the pose channel and K markers on the marker channel.
\* (Stated for callbacks that run to their end.)
C11_PoseAndMarkerPerObject ==
  (ev.kind = "frame" /\ ev.outcome = "published") =>
    /\ ev.pose_pubs = Len(ev.req_ids)
    /\ ev.marker_pubs = Len(ev.req_ids)

\* C12: a frame callback marks the goal succeeded only if the capture it
\* resolves is that goal's (the identifiers being localized are still the
\* goal's, not those of a later direct request), and the result then holds
\* one pose per identifier of the goal.  (Stated for frames whose own
\* frame-to-reference lookup succeeded.)
C12_SucceededOnlyForOwnCapture ==
  [][(/\ FrameStep /\ ev'.tf_ok
      /\ goal_status = "active" /\ goal_status' = "succeeded") =>
       /\ latest_requested_objects_ = goal_object_ids
       /\ Len(perch_result_') = Len(goal_object_ids)]_vars

\* C13: every request sent to the recognition service carries a non-empty
\* identifier list.
C13_RequestIdsNonEmpty ==
  ev.srv_called => ev.req_ids # << >>

\* C14: a goal with an empty identifier list received while the gate is
\* disarmed is aborted at once with an empty result and leaves the gate
\* disarmed and the buffer as it is; and while the gate stays disarmed a frame
\* is neither buffered nor dispatched.
C14_EmptyGoalAbortsWithoutArming ==
  [][/\ (/\ now' = now /\ alive /\ ~capture_kinect_
         /\ ev'.kind = "goal" /\ goal_object_ids' = << >>) =>
          /\ goal_status' = "aborted"
          /\ perch_result_' = << >>
          /\ ~capture_kinect_'
          /\ recent_observations_' = recent_observations_
     /\ (FrameStep /\ ~capture_kinect_ /\ goal_object_ids = << >>
           /\ goal_status = "aborted") =>
          /\ recent_observations_' = recent_observations_
          /\ ~ev'.integrated
          /\ ~ev'.srv_called
          /\ ~capture_kinect_']_vars

\* C14 witness: after a direct capture ran to its end, an empty goal was
\* aborted and a frame then arrived: the gate is disarmed, the buffer is as
\* the capture left it and the frame was rejected.
C14_Witness ==
  /\ ev.kind = "frame" /\ ev.outcome = "disarmed"
  /\ goal_status = "aborted"
  /\ goal_object_ids = << >>
  /\ latest_requested_objects_ = << >>
  /\ perch_result_ = << >>
  /\ Len(recent_observations_) = 1
  /\ ~capture_kinect_

\* C15: when the recognition call fails, the latest poses are empty, no pose
\* and no marker is published, a goal that is active becomes aborted with an
\* empty pose list, and a goal that is not active is left as it is.
C15_ServiceFailureIsTotal ==
  [][(FrameStep /\ ev'.outcome = "srv_failed") =>
       /\ ev'.srv_called
       /\ latest_object_poses_' = << >>
       /\ ev'.pose_pubs = 0 /\ ev'.marker_pubs = 0
       /\ goal_status = "active" =>
            (goal_status' = "aborted" /\ perch_result_' = << >>)
       /\ goal_status # "active" =>
            (goal_status' = goal_status /\ perch_result_' = perch_result_)
       /\ alive']_vars

\* C15 witness: a goal for two objects was aborted by a failed recognition
\* call, in the second capture since the buffer was last emptied.
C15_Witness ==
  /\ ev.kind = "frame" /\ ev.outcome = "srv_failed"
  /\ ev.req_ids = << "mug", "bowl" >>
  /\ goal_status = "aborted"
  /\ perch_result_ = << >>
  /\ latest_object_poses_ = << >>
  /\ Len(recent_observations_) = 2
  /\ num_observations_to_integrate_ = 1
  /\ ~capture_kinect_

\* C16: when the recognition call succeeds for K identifiers, the latest
\* poses are K poses, the i-th made from the i-th transform of the response,
\* and an active goal becomes succeeded with that sequence as its result.
\* (Stated for frames whose own frame-to-reference lookup succeeded.)
C16_SuccessYieldsPosePerId ==
  [][(FrameStep /\ ev'.tf_ok /\ ev'.srv_called /\ latest_call_success_') =>
       \E resp \in ResponseTransforms :
         /\ latest_object_poses_' =
              [i \in 1..Len(ev'.req_ids) |-> PoseOf(resp[i])]
         /\ goal_status = "active" =>
              /\ goal_status' = "succeeded"
              /\ perch_result_' = latest_object_poses_']_vars

\* C17: an armed frame that brings the buffer to the integration count
\* triggers one integration and one recognition call and disarms the gate;
\* an armed frame that leaves the buffer below the count triggers neither;
\* and a frame met by a disarmed gate triggers nothing.  (Stated for frames
\* whose own frame-to-reference lookup succeeded and callbacks in which the
\* viewer does not fault.)
C17_OneSignalPerArmedPeriod ==
  [][(FrameStep /\ ev'.tf_ok /\ ev'.outcome # "viewer_fault") =>
       /\ (/\ capture_kinect_
           /\ recent_observations_' # recent_observations_
           /\ Len(recent_observations_') >= num_observations_to_integrate_) =>
            (ev'.integrated /\ ev'.srv_called /\ ~capture_kinect_')
       /\ (/\ capture_kinect_
           /\ Len(recent_observations_') < num_observations_to_integrate_) =>
            (~ev'.integrated /\ ~ev'.srv_called /\ capture_kinect_')
       /\ ~capture_kinect_ =>
            (~ev'.integrated /\ ~ev'.srv_called /\ ~capture_kinect_')]_vars

\* C18: a frame met by a disarmed gate changes nothing: the buffer, the
\* requested identifiers, the latest poses, the goal result and status, the
\* stored cloud and the gate are as before, and no integration, recognition
\* call or publication happens.
C18_DisarmedFrameHasNoEffect ==
  [][(FrameStep /\ ~capture_kinect_) =>
       /\ UNCHANGED << recent_observations_, latest_requested_objects_,
                       latest_object_poses_, latest_call_success_,
                       perch_result_, goal_status, goal_object_ids,
                       recent_cloud_, cmd_rec_time_, capture_kinect_, alive >>
       /\ ~ev'.integrated
       /\ ~ev'.srv_called
       /\ ev'.pose_pubs = 0 /\ ev'.marker_pubs = 0]_vars

\* C18 witness: a frame was rejected by the gate disarmed by a goal's
\* capture, with that goal's result and the buffered frame still in place.
C18_Witness ==
  /\ ev.kind = "frame" /\ ev.outcome = "disarmed"
  /\ ~capture_kinect_
  /\ goal_status = "succeeded"
  /\ Len(perch_result_) = 2
  /\ perch_result_ = latest_object_poses_
  /\ Len(recent_observations_) = 1

\* C25: with frames kept arriving, lookups succeeding and the recognition
\* call returning, a goal that is active is eventually succeeded or aborted,
\* and an armed gate is eventually disarmed.
C25_GoalEventuallyResolved ==
  /\ (goal_status = "active") ~> (goal_status \in {"succeeded", "aborted"})
  /\ capture_kinect_ ~> ~capture_kinect_

\* C27: with visualization disabled no frame callback touches the viewer,
\* and a callback whose recognition call succeeded runs to its end (poses
\* recorded and published, gate disarmed, process running).  (Stated for
\* frames whose own frame-to-reference lookup succeeded.)
C27_ViewerOnlyWhenEnabled ==
  (ev.kind = "frame" /\ ev.tf_ok /\ ~pcl_visualization_) =>
    /\ ~ev.viewer_touched
    /\ (ev.srv_called /\ latest_call_success_) =>
         /\ ev.outcome = "published"
         /\ alive
         /\ ~capture_kinect_

====
